---- MODULE Spec2Model ----
(***************************************************************************)
(* Model of the image gallery processor (queue-based revision): main,      *)
(* buildImageList, processImage and its derivation steps, and              *)
(* writeDirImageData.                                                      *)
(*                                                                         *)
(* Strings are sequences of one-character strings; a path is a sequence of *)
(* path elements (cleaned, relative to the process's working directory),   *)
(* so "." and the empty path are both << >>.                               *)
(***************************************************************************)
EXTENDS Integers, Sequences, FiniteSets, TLC

VARIABLES
    fs,             \* the file system: path -> [kind, w, h, by]
    input,          \* the file system as it was when the run started
    root,           \* flag.Args()[0]
    unreadable,     \* directories whose ReadDir fails
    lstatErr,       \* TRUE when os.Lstat(root) fails
    pc,             \* where main is: "walk", "consume", "done", "panic"
    err,            \* what the run panicked on ("" while it has not)
    todo,           \* entries WalkDir still has to visit, next first
    imageDataMap,   \* directory -> (base name -> record)
    imageDataChan,  \* the buffered channel's content
    closed,         \* whether imageDataChan is closed
    ranged,         \* directories the final range over imageDataMap has visited
    manifest,       \* directory -> the contents written to its images.json
    emitted,        \* every WorkItem sent on the channel, in order
    processed,      \* every item processImage returned for, with decoded size
    walkErrs,       \* directories whose read error reached the walk callback
    pass,           \* 1 in a first run, 2 in a run over the tree a first run left
    firstManifest,  \* during pass 2: what pass 1 wrote, directory -> content
    currentDir      \* the walk's currentDir variable (processor.go only)

vars == <<fs, input, root, unreadable, lstatErr, pc, err, todo, imageDataMap,
          imageDataChan, closed, ranged, manifest, emitted, processed, walkErrs,
          pass, firstManifest, currentDir>>

\* what the queue-based program's steps never touch
aux == <<pass, firstManifest, currentDir>>

----------------------------------------------------------------------------
(* Program constants *)

thumbnailHeight == 400
slideHeight == 2000
tileMinDimension == 4100
QueueCap == 100
MaxInt16 == 32767

(* Bounds of the model *)

MaxEntries == 3
BulkFiles == 101

----------------------------------------------------------------------------
(* Strings *)

Alphabet == <<"-", ".", "0", "1", "2", "3", "4", "5", "6", "7", "8", "9",
              "D", "S", "_",
              "a", "b", "c", "d", "e", "f", "g", "h", "i", "j", "k", "l", "m",
              "n", "o", "p", "q", "r", "s", "t", "u", "v", "w", "x", "y", "z">>

CodeOf == [c \in {Alphabet[i] : i \in 1..Len(Alphabet)} |->
              CHOOSE i \in 1..Len(Alphabet) : Alphabet[i] = c]

Code(c) == CodeOf[c]

Min2(a, b) == IF a < b THEN a ELSE b

\* byte-wise string order, the order os.ReadDir sorts file names in
StrLess(s, t) ==
    \/ \E i \in 1..Min2(Len(s), Len(t)) :
          /\ Code(s[i]) < Code(t[i])
          /\ \A j \in 1..(i-1) : s[j] = t[j]
    \/ /\ Len(s) < Len(t)
       /\ \A j \in 1..Len(s) : s[j] = t[j]

\* strings.Contains
Contains(s, sub) ==
    \E i \in 1..(Len(s) - Len(sub) + 1) : SubSeq(s, i, i + Len(sub) - 1) = sub

\* strings.HasSuffix
HasSuffix(s, suf) ==
    /\ Len(suf) <= Len(s)
    /\ SubSeq(s, Len(s) - Len(suf) + 1, Len(s)) = suf

\* strings.TrimSuffix
TrimSuffix(s, suf) ==
    IF HasSuffix(s, suf) THEN SubSeq(s, 1, Len(s) - Len(suf)) ELSE s

\* filepath.Ext of a path element: the suffix beginning at the final dot
Ext(name) ==
    LET dots == {i \in 1..Len(name) : name[i] = "."}
    IN  IF dots = {} THEN << >>
        ELSE LET k == CHOOSE i \in dots : \A j \in dots : j <= i
             IN  SubSeq(name, k, Len(name))

S_DS_Store == <<".", "D", "S", "_", "S", "t", "o", "r", "e">>
S_thumbnail == <<"t", "h", "u", "m", "b", "n", "a", "i", "l">>
S_display == <<"d", "i", "s", "p", "l", "a", "y">>
S_html == <<"h", "t", "m", "l">>
S_dzi == <<"d", "z", "i">>
S_json == <<"j", "s", "o", "n">>
S_xml == <<"x", "m", "l">>
S_files == <<"_", "f", "i", "l", "e", "s">>
S_png == <<".", "p", "n", "g">>
S_jpg == <<".", "j", "p", "g">>
S_dotdzi == <<".", "d", "z", "i">>
S_dashthumbnail == <<"-">> \o S_thumbnail
S_dashdisplay == <<"-">> \o S_display
S_images_json == <<"i", "m", "a", "g", "e", "s", ".">> \o S_json
S_tile == <<"0", "_", "0", ".", "j", "p", "e", "g">>

skipFileNames == <<S_DS_Store, S_thumbnail, S_display, S_html, S_dzi, S_json, S_xml>>

----------------------------------------------------------------------------
(* Paths *)

\* filepath.Dir
Dir(path) == IF path = << >> THEN << >> ELSE SubSeq(path, 1, Len(path) - 1)

\* filepath.Join(dir, elem): empty elements are ignored
Join(dir, elem) == IF elem = << >> THEN dir ELSE Append(dir, elem)

\* path + s, string concatenation onto the path's text
Concat(path, s) ==
    IF path = << >> THEN <<<<".">> \o s>>
    ELSE [path EXCEPT ![Len(path)] = @ \o s]

\* fs.DirEntry.Name(): the last element; "." for the working directory
EntryName(path) == IF path = << >> THEN <<".">> ELSE path[Len(path)]

\* the empty string as a path: the zero value of a Go string variable,
\* which is not the working directory "."
NoDir == << << >> >>

IsPrefix(p, q) == Len(p) <= Len(q) /\ SubSeq(q, 1, Len(p)) = p

----------------------------------------------------------------------------
(* The file systems a run can start from *)

N_a_jpg == <<"a">> \o S_jpg
N_a_png == <<"a">> \o S_png
N_a_thumbnail_jpg == <<"a">> \o S_dashthumbnail \o S_jpg
N_sub == <<"s", "u", "b">>
N_html == S_html
N_xml_files == S_xml \o S_files
N_a_files == <<"a">> \o S_files
N_g == <<"g">>

DirCands == {<<N_sub>>, <<N_html>>, <<N_xml_files>>, <<N_a_files>>}

\* image files whose size the start state chooses
ImageCands ==
    {<<N_a_jpg>>, <<N_a_png>>} \cup
    {<<N_sub, N_a_jpg>>, <<N_sub, N_a_png>>, <<N_html, N_a_jpg>>,
     <<N_xml_files, N_a_jpg>>, <<N_a_files, N_a_jpg>>}

\* a thumbnail left by an earlier run
OtherCands == {<<N_a_thumbnail_jpg>>}

RelCands == DirCands \cup ImageCands \cup OtherCands

Trees ==
    {T \in SUBSET RelCands :
        /\ Cardinality(T) <= MaxEntries
        /\ \A p \in T : Len(p) = 1 \/ Dir(p) \in T}

Dims == {<<2000, 300>>, <<3000, 1000>>, <<4100, 4100>>, <<6000, 4000>>}

Roots == {<< >>, <<N_g>>}

DirEnt == [kind |-> "dir", w |-> 0, h |-> 0, by |-> "input"]
FileEnt(w, h, by) == [kind |-> "file", w |-> w, h |-> h, by |-> by]

\* the file system holding tree T under root r, images sized by dm
MkFs(r, T, dm) ==
    [p \in {r} \cup {r \o t : t \in T} |->
        IF p = r THEN DirEnt
        ELSE LET t == SubSeq(p, Len(r) + 1, Len(p))
             IN  IF t \in DirCands THEN DirEnt
                 ELSE IF t \in ImageCands THEN FileEnt(dm[t][1], dm[t][2], "input")
                 ELSE FileEnt(600, 400, "input")]

Digit(i) == Alphabet[3 + i]

BulkName(i) ==
    <<"f", Digit((i \div 100) % 10), Digit((i \div 10) % 10), Digit(i % 10)>> \o S_jpg

\* one flat directory of n small images
BulkFs(n) ==
    [p \in {<< >>} \cup {<<BulkName(i)>> : i \in 1..n} |->
        IF p = << >> THEN DirEnt ELSE FileEnt(300, 200, "input")]

DirsOf(fsys) == {p \in DOMAIN fsys : fsys[p].kind = "dir"}

Init ==
    /\ \/ \E r \in Roots, T \in Trees :
            \E dm \in [T \cap ImageCands -> Dims] :
                /\ root = r
                /\ fs = MkFs(r, T, dm)
                /\ lstatErr = FALSE
                /\ \E U \in SUBSET DirsOf(fs) :
                      /\ Cardinality(U) <= 1
                      /\ unreadable = U
       \/ \E n \in {QueueCap, BulkFiles} :
            /\ root = << >>
            /\ fs = BulkFs(n)
            /\ lstatErr = FALSE
            /\ unreadable = {}
       \/ /\ root = <<N_g>>
          /\ fs = << >>
          /\ lstatErr = TRUE
          /\ unreadable = {}
    /\ input = fs
    /\ pc = "walk"
    /\ err = ""
    /\ todo = <<root>>
    /\ imageDataMap = << >>
    /\ imageDataChan = << >>
    /\ closed = FALSE
    /\ ranged = {}
    /\ manifest = << >>
    /\ emitted = << >>
    /\ processed = << >>
    /\ walkErrs = {}
    /\ pass = 1
    /\ firstManifest = << >>
    /\ currentDir = NoDir

----------------------------------------------------------------------------
(* buildImageList *)

Put(m, k, v) == [x \in DOMAIN m \cup {k} |-> IF x = k THEN v ELSE m[x]]

Skipped(name) ==
    \E i \in 1..Len(skipFileNames) : Contains(name, skipFileNames[i])

\* the extension is not stripped
BaseName_keepExt(dname) == dname

BaseName(dname) == TrimSuffix(dname, Ext(dname))

NewImageData(path, name) ==
    [FullPath |-> << >>, ThumbPath |-> << >>, DisplayPath |-> << >>,
     Width |-> 0, Height |-> 0, Tiles |-> << >>, MaxWidth |-> 0, MaxHeight |-> 0,
     path |-> path, name |-> name]

\* what the walk callback returns for a name matching the skip list
SkipVerdict(d) == "nil"

\* the callback passed to filepath.WalkDir; its err argument is never read
WalkFn(path, d, m) ==
    IF Skipped(EntryName(path))
    THEN [ret |-> SkipVerdict(d), map |-> m, send |-> << >>]
    ELSE IF d.kind = "dir"
    THEN IF HasSuffix(EntryName(path), S_files)
         THEN [ret |-> "SkipDir", map |-> m, send |-> << >>]
         ELSE [ret |-> "nil",
               map |-> IF path \in DOMAIN m THEN m ELSE Put(m, path, << >>),
               send |-> << >>]
    ELSE [ret |-> "nil", map |-> m,
          send |-> <<NewImageData(path, BaseName(EntryName(path)))>>]

\* os.ReadDir: the directory's entries sorted by file name
ReadDir(fsys, path) ==
    LET kids == {p \in DOMAIN fsys : Len(p) = Len(path) + 1 /\ Dir(p) = path}
        rank == [p \in kids |->
                    Cardinality({q \in kids : StrLess(EntryName(q), EntryName(p))})]
    IN  [i \in 1..Cardinality(kids) |-> CHOOSE p \in kids : rank[p] = i - 1]

\* filepath.WalkDir when os.Lstat(root) fails: the callback gets a nil
\* DirEntry and d.Name() dereferences it
WalkRootErr ==
    /\ pc = "walk"
    /\ lstatErr
    /\ todo = <<root>>
    /\ pc' = "panic"
    /\ err' = "nil DirEntry"
    /\ todo' = << >>
    /\ walkErrs' = walkErrs \cup {root}
    /\ UNCHANGED <<aux, fs, input, root, unreadable, lstatErr, imageDataMap,
                   imageDataChan, closed, ranged, manifest, emitted, processed>>

\* one entry of the walk: the callback, then (for a directory it did not
\* skip) ReadDir, with a second callback call when ReadDir fails
WalkStep ==
    /\ pc = "walk"
    /\ ~lstatErr
    /\ todo # << >>
    /\ LET path == Head(todo)
           d == fs[path]
           r1 == WalkFn(path, d, imageDataMap)
           descend == d.kind = "dir" /\ r1.ret = "nil"
           readErr == descend /\ path \in unreadable
           r2 == IF readErr THEN WalkFn(path, d, r1.map) ELSE r1
           kids == IF descend /\ ~readErr THEN ReadDir(fs, path) ELSE << >>
       IN  /\ Len(imageDataChan) + Len(r1.send) <= QueueCap
           /\ imageDataChan' = imageDataChan \o r1.send
           /\ emitted' = emitted \o r1.send
           /\ imageDataMap' = r2.map
           /\ walkErrs' = IF readErr THEN walkErrs \cup {path} ELSE walkErrs
           /\ todo' = kids \o Tail(todo)
    /\ UNCHANGED <<aux, fs, input, root, unreadable, lstatErr, pc, err, closed,
                   ranged, manifest, processed>>

\* WalkDir returned nil: close the channel, return to main, start vips
WalkDone ==
    /\ pc = "walk"
    /\ ~lstatErr
    /\ todo = << >>
    /\ closed' = TRUE
    /\ pc' = "consume"
    /\ UNCHANGED <<aux, fs, input, root, unreadable, lstatErr, err, todo, imageDataMap,
                   imageDataChan, ranged, manifest, emitted, processed, walkErrs>>

----------------------------------------------------------------------------
(* The image engine *)

Max2(a, b) == IF a > b THEN a ELSE b

\* vips thumbnail: fit w x h into MaxInt16 x target, keeping the aspect
\* ratio, enlarging as well as reducing, sizes rounded to the nearest pixel
Resize(w, h, target) ==
    LET w1 == (w * target + h \div 2) \div h
    IN  IF w1 <= MaxInt16
        THEN <<Max2(1, w1), target>>
        ELSE <<MaxInt16, Max2(1, (h * MaxInt16 + w \div 2) \div w)>>

IsFile(fsys, path) == path \in DOMAIN fsys /\ fsys[path].kind = "file"
IsDirAt(fsys, path) == path \in DOMAIN fsys /\ fsys[path].kind = "dir"

\* os.WriteFile cannot replace a directory
CanWrite(fsys, path) == ~IsDirAt(fsys, path)

WriteFile(fsys, path, w, h, by) == Put(fsys, path, FileEnt(w, h, by))

Remove(fsys, path) == [p \in DOMAIN fsys \ {path} |-> fsys[p]]

----------------------------------------------------------------------------
(* processImage and its steps.  Each step maps a state                     *)
(* [rec, fs, err] to the next one; err # "" is the error it returns.       *)

\* convertToJPG: the target is built from imageData.FullPath, which
\* processImage has not assigned yet
convertToJPG(st, image, fail) ==
    LET imageFile == st.rec.name \o S_jpg
        path == Join(st.rec.FullPath, imageFile)
    IN  IF fail = "convert" \/ ~CanWrite(st.fs, path)
        THEN [st EXCEPT !.err = "convert"]
        ELSE [st EXCEPT !.fs = WriteFile(st.fs, path, image.w, image.h, "convert")]

generateThumbnail(st, fail) ==
    IF \/ fail = "thumbnail"
       \/ ~IsFile(st.fs, st.rec.FullPath)
       \/ ~CanWrite(st.fs, st.rec.ThumbPath)
    THEN [st EXCEPT !.err = "thumbnail"]
    ELSE LET src == st.fs[st.rec.FullPath]
             thumbnail == Resize(src.w, src.h, thumbnailHeight)
         IN  [st EXCEPT !.fs = WriteFile(st.fs, st.rec.ThumbPath,
                                         thumbnail[1], thumbnail[2], "thumbnail")]

\* the slide's size is not copied into the record
SlideSize_keepSource(rec, display) == rec

\* the record's size after a slide of size display was written
SlideSize(rec, display) ==
    [rec EXCEPT !.Height = display[2], !.Width = display[1]]

\* a failing slide step is reported as a success
generateSlideImage_swallow(st, fail) ==
    IF \/ fail = "slide"
       \/ ~IsFile(st.fs, st.rec.FullPath)
       \/ ~CanWrite(st.fs, st.rec.DisplayPath)
    THEN st
    ELSE LET src == st.fs[st.rec.FullPath]
             display == Resize(src.w, src.h, slideHeight)
         IN  [st EXCEPT !.fs = WriteFile(st.fs, st.rec.DisplayPath,
                                         display[1], display[2], "slide"),
                        !.rec = SlideSize(st.rec, display)]

generateSlideImage(st, fail) ==
    IF \/ fail = "slide"
       \/ ~IsFile(st.fs, st.rec.FullPath)
       \/ ~CanWrite(st.fs, st.rec.DisplayPath)
    THEN [st EXCEPT !.err = "slide"]
    ELSE LET src == st.fs[st.rec.FullPath]
             display == Resize(src.w, src.h, slideHeight)
         IN  [st EXCEPT !.fs = WriteFile(st.fs, st.rec.DisplayPath,
                                         display[1], display[2], "slide"),
                        !.rec = SlideSize(st.rec, display)]

\* the tile suffix is left off
TilesPath_noSuffix(imageBaseDir) == imageBaseDir

\* the tile root recorded for a tiling run with output base imageBaseDir
TilesPath(imageBaseDir) == Concat(imageBaseDir, S_files)

\* generateImageTiles: vips dzsave writes <base>_files and <base>.dzi; the
\* .dzi is then removed, and a failure to remove it is only logged
generateImageTiles(st, fail, rmOk) ==
    LET imageBaseDir == Join(Dir(st.rec.path), st.rec.name)
        tiles == Concat(imageBaseDir, S_files)   \* what dzsave creates
        dzi == Concat(imageBaseDir, S_dotdzi)
    IN  IF fail = "dzsave" \/ IsFile(st.fs, tiles) \/ IsDirAt(st.fs, dzi)
        THEN [st EXCEPT !.err = "dzsave"]
        ELSE LET fs0 == Put(st.fs, tiles, [DirEnt EXCEPT !.by = "dzsave"])
                 fs1 == WriteFile(fs0, Append(tiles, S_tile), 0, 0, "dzsave")
                 fs2 == WriteFile(fs1, dzi, 0, 0, "dzsave")
             IN  [st EXCEPT !.rec.Tiles = TilesPath(imageBaseDir),
                            !.fs = IF rmOk THEN Remove(fs2, dzi) ELSE fs2]

\* lines 170-179: the derived paths and the decoded size
FillRecord(rec, image) ==
    LET dir == Dir(rec.path)
    IN  [rec EXCEPT !.ThumbPath = Join(dir, rec.name \o S_dashthumbnail \o S_jpg),
                    !.DisplayPath = Join(dir, rec.name \o S_dashdisplay \o S_jpg),
                    !.FullPath = Join(dir, rec.name \o S_jpg),
                    !.Height = image.h,
                    !.MaxHeight = image.h,
                    !.Width = image.w,
                    !.MaxWidth = image.w]

NeedsSlide(image) == image.w > slideHeight \/ image.h > slideHeight
NeedsTiles(image) == image.w > tileMinDimension \/ image.h > tileMinDimension

\* processImage(imageData) on file system fsys; fail names the engine call
\* that fails in this run of it (none when "none")
processImage(imageData, fsys, fail, rmOk) ==
    LET st0 == [rec |-> imageData, fs |-> fsys, err |-> ""]
        image == fsys[imageData.path]
    IN  IF fail = "decode" \/ ~IsFile(fsys, imageData.path)
        THEN [st0 EXCEPT !.err = "decode"]
        ELSE
        LET st1 == IF Ext(EntryName(imageData.path)) = S_png
                   THEN convertToJPG(st0, image, fail)
                   ELSE st0
        IN  IF st1.err # "" THEN st1 ELSE
        LET st2 == [st1 EXCEPT !.rec = FillRecord(st1.rec, image)]
            st3 == generateThumbnail(st2, fail)
        IN  IF st3.err # "" THEN st3 ELSE
        LET st4 == IF NeedsSlide(image) THEN generateSlideImage(st3, fail) ELSE st3
        IN  IF st4.err # "" THEN st4 ELSE
            IF NeedsTiles(image) THEN generateImageTiles(st4, fail, rmOk) ELSE st4

Fails == {"none", "decode", "convert", "thumbnail", "slide", "dzsave"}

----------------------------------------------------------------------------
(* main: the consumer loop and the manifests *)

\* the loop is left as soon as the channel is closed
RangeDone_notDrained == pc = "consume" /\ closed

\* the range over imageDataChan ends: the channel is closed and empty
RangeDone == pc = "consume" /\ closed /\ imageDataChan = << >>

\* a later insert under a name already present is dropped
Insert_keepFirst(bucket, name, rec) ==
    IF name \in DOMAIN bucket THEN bucket ELSE Put(bucket, name, rec)

\* imageDataMap[dir][name] = imageData, on the bucket of dir
Insert(bucket, name, rec) == Put(bucket, name, rec)

\* a failed item is logged and skipped, and the loop goes on
ConsumeItem_skipFailed(fail, rmOk) ==
    /\ pc = "consume"
    /\ imageDataChan # << >>
    /\ LET imageData == Head(imageDataChan)
           r == processImage(imageData, fs, fail, rmOk)
           dir == Dir(imageData.path)
           stored == r.err = "" /\ dir \in DOMAIN imageDataMap
       IN  /\ imageDataChan' = Tail(imageDataChan)
           /\ fs' = r.fs
           /\ IF r.err # ""
              THEN /\ err' = r.err
                   /\ UNCHANGED <<pc, imageDataMap, processed>>
              ELSE /\ processed' = Append(processed,
                          [path |-> imageData.path, name |-> imageData.name,
                           w |-> fs[imageData.path].w, h |-> fs[imageData.path].h,
                           stored |-> stored,
                           rmOk |-> rmOk /\ NeedsTiles(fs[imageData.path])])
                   /\ IF stored
                      THEN /\ imageDataMap' =
                                [imageDataMap EXCEPT ![dir] = Insert(@, imageData.name, r.rec)]
                           /\ UNCHANGED <<pc, err>>
                      ELSE /\ pc' = "panic"
                           /\ err' = "nil map"
                           /\ UNCHANGED imageDataMap
    /\ UNCHANGED <<aux, input, root, unreadable, lstatErr, todo, closed, ranged,
                   manifest, emitted, walkErrs>>

\* one iteration of `for imageData := range imageDataChan`
ConsumeItem(fail, rmOk) ==
    /\ pc = "consume"
    /\ imageDataChan # << >>
    /\ LET imageData == Head(imageDataChan)
           r == processImage(imageData, fs, fail, rmOk)
           dir == Dir(imageData.path)
           stored == r.err = "" /\ dir \in DOMAIN imageDataMap
       IN  /\ imageDataChan' = Tail(imageDataChan)
           /\ fs' = r.fs
           /\ IF r.err # ""
              THEN /\ pc' = "panic"
                   /\ err' = r.err
                   /\ UNCHANGED <<imageDataMap, processed>>
              ELSE /\ processed' = Append(processed,
                          [path |-> imageData.path, name |-> imageData.name,
                           w |-> fs[imageData.path].w, h |-> fs[imageData.path].h,
                           stored |-> stored,
                           rmOk |-> rmOk /\ NeedsTiles(fs[imageData.path])])
                   /\ IF stored
                      THEN /\ imageDataMap' =
                                [imageDataMap EXCEPT ![dir] = Insert(@, imageData.name, r.rec)]
                           /\ UNCHANGED <<pc, err>>
                      ELSE \* assignment to an entry of a nil map
                           /\ pc' = "panic"
                           /\ err' = "nil map"
                           /\ UNCHANGED imageDataMap
    /\ UNCHANGED <<aux, input, root, unreadable, lstatErr, todo, closed, ranged,
                   manifest, emitted, walkErrs>>

\* json.MarshalIndent of one record: unexported fields are left out, and so
\* are the omitempty fields holding "" or 0
JsonFields(r) ==
    {"full_path", "thumb_path", "display_path", "width", "height"}
      \cup (IF r.Tiles # << >> THEN {"tiles"} ELSE {})
      \cup (IF r.MaxWidth # 0 THEN {"max_width"} ELSE {})
      \cup (IF r.MaxHeight # 0 THEN {"max_height"} ELSE {})

JsonRecord(r) ==
    [f \in JsonFields(r) |->
        CASE f = "full_path" -> r.FullPath
          [] f = "thumb_path" -> r.ThumbPath
          [] f = "display_path" -> r.DisplayPath
          [] f = "width" -> r.Width
          [] f = "height" -> r.Height
          [] f = "tiles" -> r.Tiles
          [] f = "max_width" -> r.MaxWidth
          [] f = "max_height" -> r.MaxHeight]

Marshal(bucket) == [n \in DOMAIN bucket |-> JsonRecord(bucket[n])]

\* one iteration of `for dir, imageData := range imageDataMap`:
\* writeDirImageData(dir, imageData); ok is whether create and write succeed
WriteManifest(dir, ok) ==
    /\ RangeDone
    /\ dir \in DOMAIN imageDataMap \ ranged
    /\ ranged' = ranged \cup {dir}
    /\ IF ok /\ CanWrite(fs, Join(dir, S_images_json))
       THEN /\ fs' = WriteFile(fs, Join(dir, S_images_json), 0, 0, "manifest")
            /\ manifest' = Put(manifest, dir,
                   Append(IF dir \in DOMAIN manifest THEN manifest[dir] ELSE << >>,
                          Marshal(imageDataMap[dir])))
            /\ UNCHANGED <<pc, err>>
       ELSE /\ pc' = "panic"
            /\ err' = "manifest"
            /\ UNCHANGED <<fs, manifest>>
    /\ UNCHANGED <<aux, input, root, unreadable, lstatErr, todo, imageDataMap,
                   imageDataChan, closed, emitted, processed, walkErrs>>

\* main returns after the last manifest
Finish ==
    /\ RangeDone
    /\ ranged = DOMAIN imageDataMap
    /\ pc' = "done"
    /\ UNCHANGED <<aux, fs, input, root, unreadable, lstatErr, err, todo, imageDataMap,
                   imageDataChan, closed, ranged, manifest, emitted, processed,
                   walkErrs>>

Next ==
    \/ WalkRootErr
    \/ WalkStep
    \/ WalkDone
    \/ \E fail \in Fails, rmOk \in BOOLEAN : ConsumeItem(fail, rmOk)
    \/ \E dir \in DOMAIN imageDataMap, ok \in BOOLEAN : WriteManifest(dir, ok)
    \/ Finish

Spec == Init /\ [][Next]_vars

----------------------------------------------------------------------------
(* A second run of the program over the tree a first run left *)

\* main is started again with the same argument after a run that completed
\* without a read error; every output of the first run is still in place
Rerun ==
    /\ pc = "done"
    /\ pass = 1
    /\ unreadable = {}
    /\ pass' = 2
    /\ firstManifest' = [dir \in DOMAIN manifest |-> manifest[dir][1]]
    /\ input' = fs
    /\ pc' = "walk"
    /\ err' = ""
    /\ todo' = <<root>>
    /\ imageDataMap' = << >>
    /\ imageDataChan' = << >>
    /\ closed' = FALSE
    /\ ranged' = {}
    /\ manifest' = << >>
    /\ emitted' = << >>
    /\ processed' = << >>
    /\ walkErrs' = {}
    /\ UNCHANGED <<fs, root, unreadable, lstatErr, currentDir>>

NextRerun ==
    \/ WalkRootErr
    \/ WalkStep
    \/ WalkDone
    \/ \E fail \in Fails, rmOk \in BOOLEAN : ConsumeItem(fail, rmOk)
    \/ \E dir \in DOMAIN imageDataMap, ok \in BOOLEAN : WriteManifest(dir, ok)
    \/ Finish
    \/ Rerun

SpecRerun == Init /\ [][NextRerun]_vars

----------------------------------------------------------------------------
(* processor.go: the walk that processes each file inside its callback,   *)
(* with the directory being walked kept in the variable currentDir        *)

N_z_jpg == <<"z">> \o S_jpg

PDirCands == {<<N_sub>>, <<N_html>>}

PImageCands ==
    {<<N_a_jpg>>, <<N_a_png>>, <<N_z_jpg>>,
     <<N_sub, N_a_jpg>>, <<N_sub, N_z_jpg>>, <<N_html, N_a_jpg>>}

PTrees ==
    {T \in SUBSET (PDirCands \cup PImageCands) :
        /\ Cardinality(T) <= MaxEntries
        /\ \A p \in T : Len(p) = 1 \/ Dir(p) \in T}

PMkFs(r, T, dm) ==
    [p \in {r} \cup {r \o t : t \in T} |->
        IF p = r THEN DirEnt
        ELSE LET t == SubSeq(p, Len(r) + 1, Len(p))
             IN  IF t \in PDirCands THEN DirEnt
                 ELSE FileEnt(dm[t][1], dm[t][2], "input")]

InitP ==
    /\ \/ \E r \in Roots, T \in PTrees :
            \E dm \in [T \cap PImageCands -> Dims] :
                /\ root = r
                /\ fs = PMkFs(r, T, dm)
                /\ lstatErr = FALSE
                /\ \E U \in SUBSET DirsOf(fs) :
                      /\ Cardinality(U) <= 1
                      /\ unreadable = U
       \/ \E dm \in Dims :     \* the argument names an image file
            /\ root = <<N_z_jpg>>
            /\ fs = (<<N_z_jpg>> :> FileEnt(dm[1], dm[2], "input"))
            /\ lstatErr = FALSE
            /\ unreadable = {}
       \/ /\ root = <<N_g>>
          /\ fs = << >>
          /\ lstatErr = TRUE
          /\ unreadable = {}
    /\ input = fs
    /\ pc = "pwalk"
    /\ err = ""
    /\ todo = <<root>>
    /\ imageDataMap = << >>
    /\ imageDataChan = << >>
    /\ closed = FALSE
    /\ ranged = {}
    /\ manifest = << >>
    /\ emitted = << >>
    /\ processed = << >>
    /\ walkErrs = {}
    /\ pass = 1
    /\ firstManifest = << >>
    /\ currentDir = NoDir

\* filepath.Join(currentDir, elem), where currentDir may still be ""
JoinDir(cd, elem) == Join(IF cd = NoDir THEN << >> ELSE cd, elem)

\* the steps below map [fs, err] to [fs, err]; the record they are given
\* is a copy, so nothing they assign to it is seen by the caller

P_convertToJPG(fsys, imageName, cd, image, fail) ==
    LET path == JoinDir(cd, imageName \o S_jpg)
    IN  IF fail = "convert" \/ ~CanWrite(fsys, path)
        THEN [fs |-> fsys, err |-> "convert"]
        ELSE [fs |-> WriteFile(fsys, path, image.w, image.h, "convert"), err |-> ""]

P_generateThumbnail(fsys, fullPath, thumbnailPath, fail) ==
    IF fail = "thumbnail" \/ ~IsFile(fsys, fullPath) \/ ~CanWrite(fsys, thumbnailPath)
    THEN [fs |-> fsys, err |-> "thumbnail"]
    ELSE LET src == fsys[fullPath]
             thumbnail == Resize(src.w, src.h, thumbnailHeight)
         IN  [fs |-> WriteFile(fsys, thumbnailPath, thumbnail[1], thumbnail[2],
                               "thumbnail"),
              err |-> ""]

P_generateSlideImage(fsys, fullPath, displayPath, fail) ==
    IF fail = "slide" \/ ~IsFile(fsys, fullPath) \/ ~CanWrite(fsys, displayPath)
    THEN [fs |-> fsys, err |-> "slide"]
    ELSE LET src == fsys[fullPath]
             display == Resize(src.w, src.h, slideHeight)
         IN  [fs |-> WriteFile(fsys, displayPath, display[1], display[2], "slide"),
              err |-> ""]

\* MaxWidth, MaxHeight, Width, Height and Tiles are assigned to the
\* function's own copy of the record; what remains is dzsave and the removal
P_generateImageTiles(fsys, imageName, fullPath, cd, fail, rmOk) ==
    LET base == JoinDir(cd, imageName)
        tiles == Concat(base, S_files)
        dzi == Concat(base, S_dotdzi)
    IN  IF \/ fail = "dzsave"
           \/ ~IsFile(fsys, fullPath)
           \/ IsFile(fsys, tiles)
           \/ IsDirAt(fsys, dzi)
        THEN [fs |-> fsys, err |-> "dzsave"]
        ELSE LET fs0 == Put(fsys, tiles, [DirEnt EXCEPT !.by = "dzsave"])
                 fs1 == WriteFile(fs0, Append(tiles, S_tile), 0, 0, "dzsave")
                 fs2 == WriteFile(fs1, dzi, 0, 0, "dzsave")
             IN  [fs |-> IF rmOk THEN Remove(fs2, dzi) ELSE fs2, err |-> ""]

\* processImage(image, imageName, imageData, currentDir): imageData is
\* passed by value; every error panics
P_processImage(fsys, image, imageName, imageData, cd, fail, rmOk) ==
    LET t == P_generateThumbnail(fsys, imageData.FullPath, imageData.ThumbPath, fail)
    IN  IF t.err # "" THEN t ELSE
        LET sl == IF NeedsSlide(image)
                  THEN P_generateSlideImage(t.fs, imageData.FullPath,
                                            imageData.DisplayPath, fail)
                  ELSE t
        IN  IF sl.err # "" THEN sl ELSE
            IF NeedsTiles(image)
            THEN P_generateImageTiles(sl.fs, imageName, imageData.FullPath, cd,
                                      fail, rmOk)
            ELSE sl

\* the record main builds for a file: lines 99-108
P_ImageData(cd, imageName, ext, image) ==
    [ThumbPath |-> JoinDir(cd, imageName \o S_dashthumbnail \o ext),
     DisplayPath |-> JoinDir(cd, imageName \o S_dashdisplay \o ext),
     FullPath |-> JoinDir(cd, imageName \o ext),
     Height |-> image.h,
     Width |-> image.w,
     Tiles |-> << >>, MaxWidth |-> 0, MaxHeight |-> 0]

\* the file branch of the callback.  ret is what the callback does:
\* return nil, return an error, or panic
P_VisitFile(path, d, st, fail, rmOk) ==
    LET ext0 == Ext(EntryName(path))
        imageName == TrimSuffix(EntryName(path), ext0)
        cd == st.currentDir
    IN  IF fail = "decode"
        THEN [st EXCEPT !.ret = "panic", !.err = "decode"]
        ELSE
        LET c == IF ext0 = S_png
                 THEN P_convertToJPG(st.fs, imageName, cd, d, fail)
                 ELSE [fs |-> st.fs, err |-> ""]
            ext == IF ext0 = S_png THEN S_jpg ELSE ext0
        IN  IF c.err # ""
            THEN [st EXCEPT !.ret = "error", !.err = c.err]
            ELSE
            LET imageData == P_ImageData(cd, imageName, ext, d)
                r == IF ext = S_jpg
                     THEN P_processImage(c.fs, d, imageName, imageData, cd,
                                         fail, rmOk)
                     ELSE c
                stored == cd \in DOMAIN st.map
                entry == [path |-> path, name |-> imageName, dir |-> cd,
                          w |-> d.w, h |-> d.h, stored |-> stored,
                          rec |-> imageData]
            IN  IF r.err # ""
                THEN [st EXCEPT !.ret = "panic", !.err = r.err, !.fs = r.fs]
                ELSE IF stored
                THEN [st EXCEPT !.ret = "nil", !.fs = r.fs,
                                !.map = [st.map EXCEPT ![cd] =
                                            Put(@, imageName, imageData)],
                                !.log = Append(st.log, entry)]
                ELSE \* imageDataMap[currentDir] is a nil map
                     [st EXCEPT !.ret = "panic", !.err = "nil map", !.fs = r.fs,
                                !.log = Append(st.log, entry)]

\* the callback passed to filepath.WalkDir (lines 52-119) on the state
\* st = [map, currentDir, fs, log]; its err argument is never read
P_WalkFn(path, d, st, fail, rmOk) ==
    IF Skipped(EntryName(path))
    THEN [st EXCEPT !.ret = "nil"]
    ELSE IF d.kind = "dir"
    THEN IF HasSuffix(EntryName(path), S_files)
         THEN [st EXCEPT !.ret = "SkipDir"]
         ELSE [st EXCEPT !.ret = "nil",
                         !.map = IF st.currentDir # path
                                 THEN Put(st.map, path, << >>)
                                 ELSE st.map,
                         !.currentDir = path]
    ELSE P_VisitFile(path, d, st, fail, rmOk)

\* filepath.WalkDir when os.Lstat(root) fails: d is nil and d.Name() panics
PWalkRootErr ==
    /\ pc = "pwalk"
    /\ lstatErr
    /\ todo = <<root>>
    /\ pc' = "panic"
    /\ err' = "nil DirEntry"
    /\ todo' = << >>
    /\ walkErrs' = walkErrs \cup {root}
    /\ UNCHANGED <<fs, input, root, unreadable, lstatErr, imageDataMap,
                   imageDataChan, closed, ranged, manifest, emitted, processed,
                   pass, firstManifest, currentDir>>

\* one entry of the walk: the callback, then (for a directory) ReadDir,
\* with a second callback call when ReadDir fails.  An error the callback
\* returns ends the walk and main returns without writing a manifest
PWalkStep(fail, rmOk) ==
    /\ pc = "pwalk"
    /\ ~lstatErr
    /\ todo # << >>
    /\ LET path == Head(todo)
           d == fs[path]
           st0 == [map |-> imageDataMap, currentDir |-> currentDir, fs |-> fs,
                   log |-> processed, ret |-> "nil", err |-> ""]
           r1 == P_WalkFn(path, d, st0, fail, rmOk)
           descend == d.kind = "dir" /\ r1.ret = "nil"
           readErr == descend /\ path \in unreadable
           r2 == IF readErr THEN P_WalkFn(path, d, r1, fail, rmOk) ELSE r1
           kids == IF descend /\ ~readErr THEN ReadDir(fs, path) ELSE << >>
       IN  /\ imageDataMap' = r2.map
           /\ currentDir' = r2.currentDir
           /\ fs' = r2.fs
           /\ processed' = r2.log
           /\ walkErrs' = IF readErr THEN walkErrs \cup {path} ELSE walkErrs
           /\ err' = r2.err
           /\ pc' = CASE r2.ret = "panic" -> "panic"
                      [] r2.ret = "error" -> "done"
                      [] OTHER -> "pwalk"
           /\ todo' = IF r2.ret \in {"panic", "error"} THEN << >>
                      ELSE kids \o Tail(todo)
    /\ UNCHANGED <<input, root, unreadable, lstatErr, imageDataChan, closed,
                   ranged, manifest, emitted, pass, firstManifest>>

\* WalkDir returned nil
PWalkDone ==
    /\ pc = "pwalk"
    /\ ~lstatErr
    /\ todo = << >>
    /\ pc' = "pmanifest"
    /\ UNCHANGED <<fs, input, root, unreadable, lstatErr, err, todo, imageDataMap,
                   imageDataChan, closed, ranged, manifest, emitted, processed,
                   walkErrs, pass, firstManifest, currentDir>>

\* one iteration of `for dir, imageData := range imageDataMap`
PWriteManifest(dir, ok) ==
    /\ pc = "pmanifest"
    /\ dir \in DOMAIN imageDataMap \ ranged
    /\ ranged' = ranged \cup {dir}
    /\ IF ok /\ CanWrite(fs, Join(dir, S_images_json))
       THEN /\ fs' = WriteFile(fs, Join(dir, S_images_json), 0, 0, "manifest")
            /\ manifest' = Put(manifest, dir,
                   Append(IF dir \in DOMAIN manifest THEN manifest[dir] ELSE << >>,
                          Marshal(imageDataMap[dir])))
            /\ UNCHANGED <<pc, err>>
       ELSE /\ pc' = "panic"
            /\ err' = "manifest"
            /\ UNCHANGED <<fs, manifest>>
    /\ UNCHANGED <<input, root, unreadable, lstatErr, todo, imageDataMap,
                   imageDataChan, closed, emitted, processed, walkErrs,
                   pass, firstManifest, currentDir>>

PFinish ==
    /\ pc = "pmanifest"
    /\ ranged = DOMAIN imageDataMap
    /\ pc' = "done"
    /\ UNCHANGED <<fs, input, root, unreadable, lstatErr, err, todo, imageDataMap,
                   imageDataChan, closed, ranged, manifest, emitted, processed,
                   walkErrs, pass, firstManifest, currentDir>>

NextP ==
    \/ PWalkRootErr
    \/ \E fail \in Fails, rmOk \in BOOLEAN : PWalkStep(fail, rmOk)
    \/ PWalkDone
    \/ \E dir \in DOMAIN imageDataMap, ok \in BOOLEAN : PWriteManifest(dir, ok)
    \/ PFinish

SpecP == InitP /\ [][NextP]_vars

----------------------------------------------------------------------------
(* Properties *)

\* the walker is at a send on the full channel; main is still inside
\* buildImageList, so nothing will ever receive
WalkerBlocked ==
    /\ pc = "walk"
    /\ ~lstatErr
    /\ todo # << >>
    /\ Len(WalkFn(Head(todo), fs[Head(todo)], imageDataMap).send) > 0
    /\ Len(imageDataChan) = QueueCap

Halted == pc \in {"done", "panic"} \/ WalkerBlocked

EmittedFor(dir) ==
    Cardinality({i \in 1..Len(emitted) : Dir(emitted[i].path) = dir})

ResolvedFor(dir) ==
    Cardinality({i \in 1..Len(processed) :
                    Dir(processed[i].path) = dir /\ processed[i].stored})

\* the log entry of the item a stored record came from
Src(rec) ==
    processed[CHOOSE i \in 1..Len(processed) : processed[i].path = rec.path]

\* every record held in a bucket
Stored ==
    UNION {{imageDataMap[d][n] : n \in DOMAIN imageDataMap[d]} :
              d \in DOMAIN imageDataMap}

Beneath(dir, path) == IsPrefix(dir, path) /\ path # dir

\* C1: the walker is never blocked on a full queue with nobody to drain it,
\* and when the run has halted every emitted item has been processed.
C1_WalkerNeverBlocked ==
    /\ ~WalkerBlocked
    /\ pc = "done" => Len(processed) = Len(emitted)

\* C2: no directory's manifest is written while more items were emitted for
\* that directory than have been inserted into its bucket.
C2_ManifestAfterResolved ==
    \A dir \in DOMAIN manifest : ~(EmittedFor(dir) > ResolvedFor(dir))

C2_Witness ==
    \E dir \in DOMAIN manifest : EmittedFor(dir) >= 1 /\ ResolvedFor(dir) >= 1

NoRunError ==
    /\ walkErrs = {}
    /\ err \notin {"nil DirEntry", "decode", "convert", "thumbnail", "slide",
                   "dzsave", "manifest"}

\* C3: in a run without walk, derivation or write error, once the run has
\* halted every registered directory has had its manifest written exactly
\* once; no manifest is written twice or before the walk has finished.
C3_EveryBucketWrittenOnce ==
    /\ \A dir \in DOMAIN manifest : Len(manifest[dir]) = 1 /\ closed
    /\ (Halted /\ NoRunError) =>
          \A dir \in DOMAIN imageDataMap : dir \in DOMAIN manifest

\* C4: nothing beneath a directory whose name contains an ignore substring
\* is emitted, and no bucket is registered for it or below it.
C4_SkippedDirsNotEntered ==
    \A dir \in DirsOf(input) :
        Skipped(EntryName(dir)) =>
            /\ \A i \in 1..Len(emitted) : ~Beneath(dir, emitted[i].path)
            /\ \A k \in DOMAIN imageDataMap : ~IsPrefix(dir, k)

\* C5: nothing beneath a directory whose name ends in "_files" is emitted,
\* and no bucket is registered for it, whatever the rest of its name is.
C5_TileDirsUntouched ==
    \A dir \in DirsOf(input) :
        HasSuffix(EntryName(dir), S_files) =>
            /\ \A i \in 1..Len(emitted) : ~Beneath(dir, emitted[i].path)
            /\ dir \notin DOMAIN imageDataMap

\* name is fname without its extension (the part from the final dot on)
IsStem(name, fname) ==
    /\ Len(name) <= Len(fname)
    /\ SubSeq(fname, 1, Len(name)) = name
    /\ \A i \in (Len(name) + 2)..Len(fname) : fname[i] # "."
    /\ IF Len(name) = Len(fname)
       THEN \A i \in 1..Len(fname) : fname[i] # "."
       ELSE fname[Len(name) + 1] = "."

\* the directories from the root down to the one holding path
Ancestors(path) == {SubSeq(path, 1, k) : k \in Len(root)..(Len(path) - 1)}

\* files the walk reaches that no skip or prune rule covers
AcceptedFiles ==
    {f \in DOMAIN input :
        /\ input[f].kind = "file"
        /\ ~Skipped(EntryName(f))
        /\ \A a \in Ancestors(f) :
              /\ ~Skipped(EntryName(a))
              /\ ~HasSuffix(EntryName(a), S_files)
              /\ a \notin unreadable}

\* C6: once the walk is over every accepted file has exactly one WorkItem,
\* carrying its path and its name without the extension; in a run that
\* completes every emitted item was processed exactly once.
C6_ExactlyOnce ==
    /\ closed =>
          \A f \in AcceptedFiles :
              /\ Cardinality({i \in 1..Len(emitted) : emitted[i].path = f}) = 1
              /\ \A i \in 1..Len(emitted) :
                    emitted[i].path = f => IsStem(emitted[i].name, EntryName(f))
    /\ pc = "done" =>
          /\ Len(processed) = Len(emitted)
          /\ \A i \in 1..Len(emitted) :
                Cardinality({j \in 1..Len(processed) :
                                /\ processed[j].path = emitted[i].path
                                /\ processed[j].name = emitted[i].name}) = 1

C6_Witness ==
    /\ pc = "done"
    /\ Len(emitted) >= 2
    /\ \E f \in AcceptedFiles : Len(f) > Len(root) + 1

\* C7: a traversal error aborts the walk (nothing is visited after it) and
\* the run does not end as a normal exit.
C7_WalkErrorIsFatal ==
    /\ (walkErrs # {} /\ pc = "walk") => todo = << >>
    /\ pc = "done" => walkErrs = {}

\* C8: a stored record of an image with both sides at most 4100 has no
\* tile root and zero max sizes, so none of the three is in its JSON.
C8_NoMaxBelowTiling ==
    \A rec \in Stored :
        (Src(rec).w <= tileMinDimension /\ Src(rec).h <= tileMinDimension) =>
            /\ rec.Tiles = << >>
            /\ rec.MaxWidth = 0
            /\ rec.MaxHeight = 0
            /\ JsonFields(rec) \cap {"tiles", "max_width", "max_height"} = {}

\* stored records of images with both sides at most 2000 keep the decoded size
C9_SmallKeepsSource ==
    \A rec \in Stored :
        (Src(rec).w <= slideHeight /\ Src(rec).h <= slideHeight) =>
            /\ rec.Width = Src(rec).w
            /\ rec.Height = Src(rec).h

\* the step that stores an item's record: over 2000 and at most 4100, the
\* record has the size of the slide file the step wrote; at most 2000, the
\* step leaves the display path as it was
C9_StoreStep ==
    (processed' # processed /\ processed'[Len(processed')].stored) =>
        LET e == processed'[Len(processed')]
            rec == imageDataMap'[Dir(e.path)][e.name]
            disp == Join(Dir(e.path), e.name \o S_dashdisplay \o S_jpg)
            big == Max2(e.w, e.h)
        IN  /\ (big > slideHeight /\ big <= tileMinDimension) =>
                  /\ rec.DisplayPath = disp
                  /\ IsFile(fs', disp)
                  /\ fs'[disp].by = "slide"
                  /\ rec.Width = fs'[disp].w
                  /\ rec.Height = fs'[disp].h
            /\ big <= slideHeight =>
                  /\ (disp \in DOMAIN fs') = (disp \in DOMAIN fs)
                  /\ disp \in DOMAIN fs => fs'[disp] = fs[disp]

\* C9: the record stored for an image whose larger side is over 2000 and at
\* most 4100 has the width and height of the slide file written for it at
\* its display path; an image with both sides at most 2000 writes no slide
\* and its record keeps the decoded width and height.
C9_SlideDimensions == []C9_SmallKeepsSource /\ [][C9_StoreStep]_vars

C9_Witness ==
    \E rec \in Stored :
        /\ Max2(Src(rec).w, Src(rec).h) > slideHeight
        /\ Max2(Src(rec).w, Src(rec).h) <= tileMinDimension
        /\ <<rec.Width, rec.Height>> # <<Src(rec).w, Src(rec).h>>

\* C10: a stored record of an image whose larger side is over 4100 has the
\* decoded size as its max size and <dir>/<name>_files as its tile root;
\* that directory exists, and <dir>/<name>.dzi does not when its removal
\* succeeded.
C10_TiledRecord ==
    \A rec \in Stored :
        LET src == Src(rec)
            dir == Dir(rec.path)
        IN  Max2(src.w, src.h) > tileMinDimension =>
                /\ rec.MaxWidth = src.w
                /\ rec.MaxHeight = src.h
                /\ rec.Tiles = Append(dir, rec.name \o S_files)
                /\ IsDirAt(fs, Append(dir, rec.name \o S_files))
                /\ src.rmOk => Append(dir, rec.name \o S_dotdzi) \notin DOMAIN fs

C10_Witness ==
    \E rec \in Stored :
        /\ Max2(Src(rec).w, Src(rec).h) > tileMinDimension
        /\ Src(rec).rmOk
        /\ rec.Tiles # << >>

\* C11: every normalized JPEG convertToJPG has written lies at the full
\* path <dir>/<name>.jpg of a .png item, in that item's own directory, and
\* the full path of every item processImage returned for holds a file.
C11_FullPathInSourceDir ==
    /\ \A p \in DOMAIN fs :
          fs[p].by = "convert" =>
              \E i \in 1..Len(emitted) :
                  /\ Ext(EntryName(emitted[i].path)) = S_png
                  /\ p = Append(Dir(emitted[i].path), emitted[i].name \o S_jpg)
    /\ \A i \in 1..Len(processed) :
          IsFile(fs, Append(Dir(processed[i].path), processed[i].name \o S_jpg))

\* C12: every record held in a bucket comes from an item processImage
\* returned for, has its paths filled in, and every derivation that applies
\* to its image has left its output: the thumbnail always, the slide over
\* 2000, the tile directory over 4100.
C12_NoPartialRecord ==
    \A rec \in Stored :
        /\ \E i \in 1..Len(processed) :
              processed[i].path = rec.path /\ processed[i].stored
        /\ rec.FullPath # << >> /\ rec.ThumbPath # << >> /\ rec.DisplayPath # << >>
        /\ IsFile(fs, rec.ThumbPath) /\ fs[rec.ThumbPath].by = "thumbnail"
        /\ NeedsSlide(Src(rec)) =>
              IsFile(fs, rec.DisplayPath) /\ fs[rec.DisplayPath].by = "slide"
        /\ NeedsTiles(Src(rec)) =>
              rec.Tiles # << >> /\ IsDirAt(fs, rec.Tiles)

C12_Witness ==
    \E rec \in Stored : NeedsTiles(Src(rec)) /\ pc = "consume"

\* C13: when writing one directory's manifest has failed, every other
\* registered directory still gets its manifest written before the run ends.
C13_SiblingsStillWritten ==
    (pc \in {"done", "panic"} /\ err = "manifest") =>
        DOMAIN imageDataMap \subseteq ranged

\* no two emitted items share directory and base name
DistinctKeys ==
    \A i, j \in 1..Len(emitted) :
        (/\ Dir(emitted[i].path) = Dir(emitted[j].path)
         /\ emitted[i].name = emitted[j].name) => i = j

\* the JSON record of one item, from the start file system alone
ExpectedJson(item) ==
    LET w == input[item.path].w
        h == input[item.path].h
        dir == Dir(item.path)
        slide == Resize(w, h, slideHeight)
        base == [full_path |-> Append(dir, item.name \o S_jpg),
                 thumb_path |-> Append(dir, item.name \o S_dashthumbnail \o S_jpg),
                 display_path |-> Append(dir, item.name \o S_dashdisplay \o S_jpg),
                 width |-> IF Max2(w, h) > slideHeight THEN slide[1] ELSE w,
                 height |-> IF Max2(w, h) > slideHeight THEN slide[2] ELSE h,
                 max_width |-> w,
                 max_height |-> h]
    IN  IF Max2(w, h) > tileMinDimension
        THEN base @@ ("tiles" :> Append(dir, item.name \o S_files))
        ELSE base

\* the manifest of dir, from the start file system alone
ExpectedManifest(dir) ==
    LET items == {emitted[i] : i \in {k \in 1..Len(emitted) : Dir(emitted[k].path) = dir}}
    IN  [n \in {it.name : it \in items} |->
            ExpectedJson(CHOOSE it \in items : it.name = n)]

\* C14: with pairwise distinct (directory, base name) keys, every manifest
\* written holds, under each base name, the record determined by that
\* item's source file alone, whatever was processed or written before it;
\* a run that completes has written exactly that for every directory.
C14_ManifestFromInputAlone ==
    DistinctKeys =>
        /\ \A dir \in DOMAIN manifest : manifest[dir] = <<ExpectedManifest(dir)>>
        /\ pc = "done" => DOMAIN manifest = DOMAIN imageDataMap

C14_Witness ==
    /\ pc = "done"
    /\ DistinctKeys
    /\ Cardinality(DOMAIN manifest) >= 2
    /\ Cardinality({Dir(emitted[i].path) : i \in 1..Len(emitted)}) >= 2

DerivErrs == {"decode", "convert", "thumbnail", "slide", "dzsave"}

C16_Halted ==
    err \in DerivErrs =>
        /\ pc = "panic"
        /\ manifest = << >>
        /\ ranged = {}
        /\ Len(emitted) = Len(processed) + 1 + Len(imageDataChan)

C16_NothingAfter ==
    err \in DerivErrs =>
        /\ processed' = processed
        /\ manifest' = manifest
        /\ imageDataMap' = imageDataMap

\* C16: once a derivation step has failed for an item the run has halted
\* at that item: the items behind it stay unprocessed and no manifest has
\* been or is ever written.
C16_FailureHaltsRun == []C16_Halted /\ [][C16_NothingAfter]_vars

C16_Witness ==
    /\ err \in DerivErrs
    /\ Len(processed) >= 1
    /\ \E dir \in DOMAIN imageDataMap :
          EmittedFor(dir) >= 1 /\ EmittedFor(dir) = ResolvedFor(dir)

\* the index in processed of the last item resolved for (dir, name)
LastFor(dir, name) ==
    CHOOSE i \in 1..Len(processed) :
        /\ Dir(processed[i].path) = dir /\ processed[i].name = name
        /\ \A j \in 1..Len(processed) :
              (Dir(processed[j].path) = dir /\ processed[j].name = name) => j <= i

\* C17: in a run that completes, every item was emitted and processed, and
\* each directory's manifest has one entry per base name, holding the
\* record of the item resolved last under that name.
C17_LaterWins ==
    pc = "done" =>
        /\ Len(processed) = Len(emitted)
        /\ \A dir \in DOMAIN imageDataMap :
              /\ DOMAIN imageDataMap[dir] =
                     {processed[i].name :
                         i \in {k \in 1..Len(processed) : Dir(processed[k].path) = dir}}
              /\ DOMAIN manifest[dir][1] = DOMAIN imageDataMap[dir]
              /\ \A n \in DOMAIN imageDataMap[dir] :
                    LET last == processed[LastFor(dir, n)]
                    IN  /\ imageDataMap[dir][n].path = last.path
                        /\ manifest[dir][1][n]["max_width"] = last.w
                        /\ manifest[dir][1][n]["max_height"] = last.h

C17_Witness ==
    /\ pc = "done"
    /\ \E i, j \in 1..Len(processed) :
          /\ i < j
          /\ Dir(processed[i].path) = Dir(processed[j].path)
          /\ processed[i].name = processed[j].name
          /\ <<processed[i].w, processed[i].h>> # <<processed[j].w, processed[j].h>>

\* C20: every emitted item's directory has a bucket, so the insert never
\* targets a missing one.
C20_BucketRegistered ==
    /\ \A i \in 1..Len(emitted) : Dir(emitted[i].path) \in DOMAIN imageDataMap
    /\ err # "nil map"

Generated == {"thumbnail", "slide", "dzsave", "manifest"}

\* C15: the second pass emits no item for a thumbnail, slide, tile or
\* manifest the first pass generated, does not stop on a missing bucket,
\* and when it completes it has written, for every directory, a manifest
\* equal to the first pass's.
C15_SecondPassSame ==
    pass = 2 =>
        /\ \A i \in 1..Len(emitted) :
              input[emitted[i].path].by \notin Generated
        /\ err # "nil map"
        /\ pc = "done" =>
              /\ DOMAIN manifest = DOMAIN firstManifest
              /\ \A dir \in DOMAIN manifest :
                    manifest[dir] = <<firstManifest[dir]>>

\* C18: in processor.go every stored record sits in the bucket of the
\* directory that holds its file, and its full, thumbnail and display
\* paths lie in that directory.
C18_BucketIsOwnDirectory ==
    \A i \in 1..Len(processed) :
        LET e == processed[i]
            own == Dir(e.path)
        IN  e.stored =>
                /\ e.dir = own
                /\ e.rec.FullPath = Join(own, e.name \o S_jpg)
                /\ e.rec.ThumbPath = Join(own, e.name \o S_dashthumbnail \o S_jpg)
                /\ e.rec.DisplayPath = Join(own, e.name \o S_dashdisplay \o S_jpg)

\* C19: in processor.go the record stored for an image over the tiling
\* threshold has Tiles = <dir>/<name>_files and MaxWidth, MaxHeight equal
\* to the source's width and height.
C19_StoredRecordHasTiles ==
    \A i \in 1..Len(processed) :
        LET e == processed[i]
        IN  (/\ e.stored
             /\ NeedsTiles(e)
             /\ \A j \in 1..Len(processed) :
                   (processed[j].dir = e.dir /\ processed[j].name = e.name) => j <= i)
            => LET rec == imageDataMap[e.dir][e.name]
               IN  /\ rec.Tiles = Concat(JoinDir(e.dir, e.name), S_files)
                   /\ rec.MaxWidth = e.w
                   /\ rec.MaxHeight = e.h

====
